---------------------------- MODULE Spec2Model ----------------------------
(***************************************************************************)
(* Polling alerts of the VybeScope bot: the preference store of            *)
(* core/dashboard.py, the per-token whale alert job of                     *)
(* core/whale_alerts.py with the fetch of api.py, the signature-marker job *)
(* of core/jobs.py and the wallet tracking job of core/wallet_tracker.py   *)
(* with its scheduler loop, and the text and button handlers of bot.py.    *)
(*                                                                         *)
(* USD values and thresholds are the numbers of the source; a valueUsd     *)
(* text that float() rejects is the value NonNumeric.  Time is in seconds. *)
(* Each job function is modelled on the arguments its own signature        *)
(* documents: context.job.data is the Application in whale_alert_job.      *)
(* check_recent_transactions calls two coroutine functions without await;  *)
(* its actions cover both the TypeError this gives and the call awaited.   *)
(***************************************************************************)
EXTENDS Integers, Sequences, FiniteSets, TLC

(* ------------------------------ bounds -------------------------------- *)
MaxBatch == 2            \* longest response of the remote API
MaxTime == 6             \* last second of the modelled clock
MaxChain == 1            \* transfers that appear on chain in the timed model

(* ------------------------- program constants -------------------------- *)
DefaultThreshold == 50000
NonNumeric == -1         \* a valueUsd for which float() raises ValueError
WHALE_ALERT_INTERVAL_SECONDS == 4   \* the environment variable, as deployed
WindowSlack == 2         \* api.py: timedelta(seconds=alert_intervals - 2)

Users == {1, 2}
Tokens == {"mintA", "mintB"}
Wallets == {"walletA", "walletB"}
Thresholds == {DefaultThreshold, 100000}

\* the (user, token) pairs the handlers are invoked for
SubjectList == << <<1, "mintA">>, <<1, "mintB">>, <<2, "mintA">> >>

Subjects == {SubjectList[i] : i \in 1..Len(SubjectList)}

NoUser == 0
NoToken == "-"
NoSignature == ""        \* a missing or empty signature / marker (falsy)

(* ------------------------ sequences as Python lists ------------------- *)
Range(s) == {s[i] : i \in 1..Len(s)}

Contains(s, x) == \E i \in 1..Len(s) : s[i] = x

RECURSIVE Remove(_, _)
\* list.remove(x) / del d[x]: drops the first occurrence
Remove(s, x) ==
    IF s = <<>> THEN <<>>
    ELSE IF Head(s) = x THEN Tail(s)
    ELSE <<Head(s)>> \o Remove(Tail(s), x)

\* the sequences without repetition over S, of length at most n
SeqsUpTo(S, n) ==
    UNION {{s \in [1..k -> S] : \A i, j \in 1..k : i # j => s[i] # s[j]} : k \in 0..n}

(* --------------------------- the store -------------------------------- *)
\* one entry of whale_alert["tokens"]
AbsentSetting == [enabled |-> FALSE, threshold |-> 0]

\* a user record not in the file
AbsentUser ==
    [wallets |-> <<>>,
     token_keys |-> <<>>,
     tokens |-> [t \in Tokens |-> AbsentSetting],
     enabled |-> FALSE,
     threshold |-> DefaultThreshold,
     last_alerted_signature |-> NoSignature]

\* the file of a fresh installation
EmptyDashboard == [keys |-> <<>>, rec |-> [u \in Users |-> AbsentUser]]

HasUser(d, u) == Contains(d.keys, u)

\* data.setdefault(str(user_id), {...}): the dict with the user's key present
SetDefault(d, u) ==
    IF HasUser(d, u) THEN d ELSE [d EXCEPT !.keys = Append(@, u)]

HasToken(d, u, t) == Contains(d.rec[u].token_keys, t)

\* get_tracked_whale_alert_tokens(user_id)
get_tracked_whale_alert_tokens(d, u) ==
    IF HasUser(d, u) THEN d.rec[u].token_keys ELSE <<>>

\* get_token_alert_settings(user_id, token_address)
get_token_alert_settings(d, u, t) ==
    IF HasUser(d, u) /\ HasToken(d, u, t)
    THEN d.rec[u].tokens[t]
    ELSE [enabled |-> FALSE, threshold |-> DefaultThreshold]

\* the address is appended without the membership test
AppendWallet(d, u, w) ==
    [SetDefault(d, u) EXCEPT !.rec[u].wallets = Append(@, w)]

\* each mutator: the file after the call (the file is written only where
\* the source calls _save_dashboard)
add_tracked_wallet(d, u, w) ==
    LET data == SetDefault(d, u) IN
    IF ~Contains(data.rec[u].wallets, w)
    THEN [data EXCEPT !.rec[u].wallets = Append(@, w)]
    ELSE d

remove_tracked_wallet(d, u, w) ==
    LET data == SetDefault(d, u) IN
    IF Contains(data.rec[u].wallets, w)
    THEN [data EXCEPT !.rec[u].wallets = Remove(@, w)]
    ELSE d

\* the file is emptied when one user clears his dashboard
ClearEveryUser(d, u) == IF HasUser(d, u) THEN EmptyDashboard ELSE d

clear_user_dashboard(d, u) ==
    IF HasUser(d, u)
    THEN [keys |-> Remove(d.keys, u), rec |-> [d.rec EXCEPT ![u] = AbsentUser]]
    ELSE d

add_tracked_whale_alert_token(d, u, t) ==
    LET data == SetDefault(d, u) IN
    IF ~HasToken(data, u, t)
    THEN [data EXCEPT !.rec[u].token_keys = Append(@, t),
                      !.rec[u].tokens[t] =
                          [enabled |-> TRUE, threshold |-> DefaultThreshold]]
    ELSE d

remove_tracked_whale_alert_token(d, u, t) ==
    LET data == SetDefault(d, u) IN
    IF HasToken(data, u, t)
    THEN [data EXCEPT !.rec[u].token_keys = Remove(@, t),
                      !.rec[u].tokens[t] = AbsentSetting]
    ELSE d

set_token_alert_enabled(d, u, t, enabled) ==
    LET data == SetDefault(d, u) IN
    IF ~HasToken(data, u, t)
    THEN [data EXCEPT !.rec[u].token_keys = Append(@, t),
                      !.rec[u].tokens[t] =
                          [enabled |-> enabled, threshold |-> DefaultThreshold]]
    ELSE [data EXCEPT !.rec[u].tokens[t].enabled = enabled]

set_token_alert_threshold(d, u, t, threshold) ==
    LET data == SetDefault(d, u) IN
    IF ~HasToken(data, u, t)
    THEN [data EXCEPT !.rec[u].token_keys = Append(@, t),
                      !.rec[u].tokens[t] =
                          [enabled |-> TRUE, threshold |-> threshold]]
    ELSE [data EXCEPT !.rec[u].tokens[t].threshold = threshold]


(* ------------------------- transfers of the API ----------------------- *)
Tx(sig, value, time) == [signature |-> sig, valueUsd |-> value, blockTime |-> time]

NoTx == Tx(NoSignature, 0, 0)

\* the transfers the remote service may return
Pool ==
    {Tx("SIG_A", 80000, 1), Tx("SIG_B", 120000, 2), Tx("SIG_C", 10000, 3),
     Tx("SIG_D", 120000, 2), Tx("SIG_X", NonNumeric, 1), Tx(NoSignature, 200000, 3)}

Batches == SeqsUpTo(Pool, MaxBatch)

\* the responses the polling jobs are run against: no transfer, a small
\* transfer, a small transfer before a whale, an unparsable value before a
\* whale
Responses ==
    {<<>>, <<Tx("SIG_C", 10000, 3)>>,
     <<Tx("SIG_C", 10000, 3), Tx("SIG_A", 80000, 1)>>,
     <<Tx("SIG_X", NonNumeric, 1), Tx("SIG_A", 80000, 1)>>}

\* float(x): raises ValueError on a text that is not a number
FloatRaises(v) == v = NonNumeric

AnyFloatRaises(batch) == \E i \in 1..Len(batch) : FloatRaises(batch[i].valueUsd)

RECURSIVE MaxIndexFrom(_, _, _)
\* max(transactions, key=...): scans left to right and replaces the running
\* maximum only by a strictly greater key, so the first maximum wins
MaxIndexFrom(batch, i, best) ==
    IF i > Len(batch) THEN best
    ELSE IF batch[i].valueUsd > batch[best].valueUsd
         THEN MaxIndexFrom(batch, i + 1, i)
         ELSE MaxIndexFrom(batch, i + 1, best)

MaxIndex(batch) == MaxIndexFrom(batch, 2, 1)

\* max() is applied to the transfers without the test for an empty list
MaxOfAnyResponse(batch) ==
    IF batch = <<>> \/ AnyFloatRaises(batch) THEN [kind |-> "raise", index |-> 0]
    ELSE [kind |-> "tx", index |-> MaxIndex(batch)]

\* fetch_whale_transaction_for_single_token, from the transfers of the
\* response on: None for no transfers, ValueError out of max(), else the
\* transfer of maximal value
fetch_whale_transaction_for_single_token(batch) ==
    IF batch = <<>> THEN [kind |-> "none", index |-> 0]
    ELSE IF AnyFloatRaises(batch) THEN [kind |-> "raise", index |-> 0]
    ELSE [kind |-> "tx", index |-> MaxIndex(batch)]

\* the highest transfer of the response is selected whatever it is worth
EvaluateAnyValue(batch, threshold) ==
    LET r == fetch_whale_transaction_for_single_token(batch) IN
    IF r.kind # "tx" THEN r ELSE [kind |-> "selected", index |-> r.index]

\* whale_alert_job lines 143-153: what the job makes of the response for the
\* threshold it read: "none", "raise" (caught at line 207), "below" or
\* "selected" with the index of the selected transfer
Evaluate(batch, threshold) ==
    LET r == fetch_whale_transaction_for_single_token(batch) IN
    IF r.kind # "tx" THEN r
    ELSE IF batch[r.index].valueUsd < threshold
         THEN [kind |-> "below", index |-> r.index]
         ELSE [kind |-> "selected", index |-> r.index]

\* the token is still in the list of the user, enabled or not
StillTracked(d, u, t) == Contains(get_tracked_whale_alert_tokens(d, u), t)

\* lines 186-193: the alert is still wanted right before it is sent
Revalidate(d, u, t) ==
    /\ Contains(get_tracked_whale_alert_tokens(d, u), t)
    /\ get_token_alert_settings(d, u, t).enabled

(* ------------------------------ state --------------------------------- *)
VARIABLES
    now,            \* wall clock, seconds
    chain,          \* transfers on chain, oldest first: [mint, tx]
    dashboard,      \* user_dashboard.json
    ev,             \* the last evaluation: [batch, threshold, result]
    w_pc,           \* whale_alert_job: "idle", "fetching", "sending"
    w_users,        \* users still to visit (list(dashboard.keys()))
    w_user,         \* user of the running iteration
    w_tokens,       \* tokens still to visit for w_user
    w_token,        \* token of the running iteration
    w_threshold,    \* threshold read at line 137
    w_start_date,   \* timeStart of the request in flight
    w_next_due,     \* next run time of the repeating job
    w_outcome,      \* how the last pair of the job ended
    w_failed,       \* a pair of the running tick ended in an exception
    last_sent,      \* the whale alert the last pair handed to the bot, if any
    sent,           \* (user, token, signature) of every alert delivered
    resent,         \* an alert was delivered for a key already in sent
    j_pc,           \* jobs.py whale_alert_job: "idle", "loop", "notifying",
                    \* "persisting"
    j_dashboard,    \* the dict loaded at line 14 and changed at line 49
    j_users,        \* users still to visit (dashboard.items())
    j_user,         \* user of the running iteration
    j_sig,          \* tx_signature of the running iteration
    j_eval,         \* the last evaluation: [user, signature, marker, kind]
    j_unwritten,    \* users whose save of this tick raised (line 55)
    last_transaction_times, \* wallet_tracker.py line 20, 0 for no entry
    t_pc,           \* wallet_tracking_job: "idle", "fetching", "sending"
    t_pairs,        \* (user, wallet) pairs still to check
    t_user,         \* user of the running check
    t_wallet,       \* wallet of the running check
    t_last_tx_time, \* last_tx_time read at line 351
    t_new,          \* new_transactions still to send
    t_outcome,      \* how the last check ended
    t_failed,       \* a check of the running tick ended in an exception
    t_check,        \* the last check that got a list: [wallet, before, txs,
                    \* notified], notified being the messages delivered
    s_pc,           \* scheduler_loop: "off", "call", "await", "sleep"
    user_states,    \* bot.py line 65: the pending input state of each user
    user_thresholds \* bot.py line 64: the threshold of the generic prompt

env_vars == <<now, chain>>

store_vars == <<dashboard>>

eval_vars == <<ev>>

whale_vars ==
    <<w_pc, w_users, w_user, w_tokens, w_token, w_threshold, w_start_date,
      w_next_due, w_outcome, w_failed, last_sent, sent, resent>>

jobs_vars ==
    <<j_pc, j_dashboard, j_users, j_user, j_sig, j_eval, j_unwritten>>

wallet_vars ==
    <<last_transaction_times, t_pc, t_pairs, t_user, t_wallet, t_last_tx_time,
      t_new, t_outcome, t_failed, t_check>>

sched_vars == <<s_pc>>

chat_vars == <<user_states, user_thresholds>>

vars ==
    <<env_vars, store_vars, eval_vars, whale_vars, jobs_vars, wallet_vars,
      sched_vars, chat_vars>>

NoAlert == [user |-> NoUser, token |-> NoToken, tx |-> NoTx, threshold |-> 0]

Pending == [kind |-> "pending", index |-> 0]

NoJobsEval ==
    [user |-> NoUser, signature |-> NoSignature, marker |-> NoSignature,
     kind |-> "none"]

(* --------------------- whale_alert_job (whale_alerts.py) -------------- *)
Position(pc, users, user, tokens, token, threshold) ==
    [pc |-> pc, users |-> users, user |-> user, tokens |-> tokens,
     token |-> token, threshold |-> threshold]

RECURSIVE Scan(_, _, _, _)
\* lines 130-143: runs the two loops on from the current position up to the
\* next fetch (a suspension point) or to the end of the tick; a user's token
\* list is loaded when his iteration starts, disabled tokens are skipped
Scan(d, user, tokens, users) ==
    IF tokens # <<>>
    THEN LET t == Head(tokens)
             settings == get_token_alert_settings(d, user, t)
         IN  IF settings.enabled
             THEN Position("fetching", users, user, Tail(tokens), t,
                           settings.threshold)
             ELSE Scan(d, user, Tail(tokens), users)
    ELSE IF users # <<>>
         THEN Scan(d, Head(users),
                   get_tracked_whale_alert_tokens(d, Head(users)), Tail(users))
         ELSE Position("idle", <<>>, NoUser, <<>>, NoToken, 0)

\* the exception of a pair leaves the job: the run is over where it stands
Propagate(d, user, tokens, users) ==
    Position("idle", users, user, tokens, NoToken, 0)

\* lines 205-208: an exception of a pair is logged and the loop goes on
AfterException(d, user, tokens, users) == Scan(d, user, tokens, users)

\* api.py lines 80-83
StartDate(t) == t - (WHALE_ALERT_INTERVAL_SECONDS - WindowSlack)

Goto(p) ==
    /\ w_pc' = p.pc
    /\ w_users' = p.users
    /\ w_user' = p.user
    /\ w_tokens' = p.tokens
    /\ w_token' = p.token
    /\ w_threshold' = p.threshold
    /\ w_start_date' = IF p.pc = "fetching" THEN StartDate(now) ELSE 0

\* run_repeating is called without job_kwargs (bot.py lines 771-776), so the
\* job queue keeps its default of one running instance per job: a run is
\* submitted only while no run of the same job is in progress.
SubmitAlways(pc) == TRUE

MaySubmit(pc) == pc = "idle"

\* the job queue starts a run at its due time (bot.py lines 771-773)
whale_alert_job_start ==
    /\ MaySubmit(w_pc)
    /\ now >= w_next_due
    /\ w_next_due' = w_next_due + WHALE_ALERT_INTERVAL_SECONDS
    /\ Goto(Scan(dashboard, NoUser, <<>>, dashboard.keys))
    /\ w_outcome' = "start"
    /\ w_failed' = FALSE
    /\ last_sent' = NoAlert
    /\ UNCHANGED <<sched_vars, chat_vars,
                   env_vars, store_vars, eval_vars, jobs_vars, wallet_vars,
                   sent, resent>>

\* the request of line 143 fails (network error, HTTP status, bad JSON) or
\* the token statistics request of api.py line 98 does
whale_alert_job_fetch_error ==
    /\ w_pc = "fetching"
    /\ Goto(AfterException(dashboard, w_user, w_tokens, w_users))
    /\ w_outcome' = "error"
    /\ w_failed' = TRUE
    /\ last_sent' = NoAlert
    /\ UNCHANGED <<sched_vars, chat_vars,
                   env_vars, store_vars, eval_vars, jobs_vars, wallet_vars,
                   w_next_due, sent, resent>>

\* the response arrives: lines 146-204 up to the await of send_message
whale_alert_job_fetched(batch, delivered) ==
    /\ w_pc = "fetching"
    /\ LET e == Evaluate(batch, w_threshold)
           key == [user |-> w_user, token |-> w_token,
                   signature |-> batch[e.index].signature]
       IN
       IF e.kind = "raise"
       THEN /\ Goto(AfterException(dashboard, w_user, w_tokens, w_users))
            /\ w_outcome' = "raise"
            /\ w_failed' = TRUE
            /\ last_sent' = NoAlert
            /\ UNCHANGED <<sent, resent>>
       ELSE IF e.kind # "selected"
       THEN /\ Goto(Scan(dashboard, w_user, w_tokens, w_users))
            /\ w_outcome' = e.kind
            /\ last_sent' = NoAlert
            /\ UNCHANGED <<w_failed, sent, resent>>
       ELSE IF ~Revalidate(dashboard, w_user, w_token)
       THEN /\ Goto(Scan(dashboard, w_user, w_tokens, w_users))
            /\ w_outcome' = "cancelled"
            /\ last_sent' = NoAlert
            /\ UNCHANGED <<w_failed, sent, resent>>
       ELSE /\ w_pc' = "sending"
            /\ last_sent' = [user |-> w_user, token |-> w_token,
                             tx |-> batch[e.index], threshold |-> w_threshold]
            /\ sent' = IF delivered THEN sent \cup {key} ELSE sent
            /\ resent' = (resent \/ (delivered /\ key \in sent))
            /\ w_outcome' = IF delivered THEN "sent" ELSE "send_failed"
            /\ w_failed' = (w_failed \/ ~delivered)
            /\ UNCHANGED <<w_users, w_user, w_tokens, w_token, w_threshold,
                           w_start_date>>
    /\ ev' = [batch |-> batch, threshold |-> w_threshold,
              result |-> Evaluate(batch, w_threshold)]
    /\ UNCHANGED <<sched_vars, chat_vars,
                   env_vars, store_vars, jobs_vars, wallet_vars, w_next_due>>

\* send_message has returned or raised (caught at line 203)
whale_alert_job_send_done ==
    /\ w_pc = "sending"
    /\ Goto(Scan(dashboard, w_user, w_tokens, w_users))
    /\ UNCHANGED <<sched_vars, chat_vars,
                   env_vars, store_vars, eval_vars, jobs_vars, wallet_vars,
                   w_next_due,
                   w_outcome, w_failed, last_sent, sent, resent>>

(* ----------------------- handlers that edit the store ----------------- *)
\* a handler calls a mutator that leaves the file as after: load, change,
\* save, with no await between;
\* handlers run on the event loop, while no job is inside a synchronous part
Edit(after) ==
    /\ j_pc \in {"idle", "notifying"}
    /\ after # dashboard
    /\ dashboard' = after
    /\ UNCHANGED <<sched_vars, chat_vars,
                   env_vars, eval_vars, whale_vars, jobs_vars, wallet_vars>>

TokenEdit ==
    \E s \in Subjects : LET u == s[1]  t == s[2] IN
        \/ Edit(add_tracked_whale_alert_token(dashboard, u, t))
        \/ Edit(remove_tracked_whale_alert_token(dashboard, u, t))
        \/ \E b \in BOOLEAN :
               Edit(set_token_alert_enabled(dashboard, u, t, b))
        \/ \E th \in Thresholds :
               Edit(set_token_alert_threshold(dashboard, u, t, th))
        \/ Edit(clear_user_dashboard(dashboard, u))

(* ---------------------- whale_alert_job (jobs.py) --------------------- *)
\* the responses of fetch_whale_transactions the job is run against
JobsResponses ==
    {<<>>, <<Tx("SIG_A", 80000, 1)>>,
     <<Tx("SIG_A", 80000, 1), Tx("SIG_B", 120000, 2)>>,
     <<Tx("SIG_X", NonNumeric, 1), Tx("SIG_A", 80000, 1)>>,
     <<Tx(NoSignature, 200000, 3)>>}

Markers == {NoSignature, "SIG_A"}

\* the highest transfer is new whatever the marker is
JobsEvaluateAnyMarker(batch, marker) ==
    IF batch = <<>> THEN [kind |-> "none", index |-> 0]
    ELSE IF AnyFloatRaises(batch) THEN [kind |-> "raise", index |-> 0]
    ELSE IF batch[MaxIndex(batch)].signature # NoSignature
         THEN [kind |-> "new", index |-> MaxIndex(batch)]
         ELSE [kind |-> "old", index |-> MaxIndex(batch)]

\* lines 22-31: "none" for no transfers, "raise" for the ValueError out of
\* max(), "new" when the signature of the highest transfer is truthy and is
\* not the marker, else "old"
JobsEvaluate(batch, marker) ==
    IF batch = <<>> THEN [kind |-> "none", index |-> 0]
    ELSE IF AnyFloatRaises(batch) THEN [kind |-> "raise", index |-> 0]
    ELSE LET k == MaxIndex(batch) IN
         IF batch[k].signature # NoSignature /\ batch[k].signature # marker
         THEN [kind |-> "new", index |-> k]
         ELSE [kind |-> "old", index |-> k]

JobsPc(users) == IF users = <<>> THEN "idle" ELSE "loop"

\* line 14: the whole file is loaded once
jobs_whale_alert_job_start ==
    /\ j_pc = "idle"
    /\ j_dashboard' = dashboard
    /\ j_users' = dashboard.keys
    /\ j_pc' = JobsPc(dashboard.keys)
    /\ j_user' = NoUser
    /\ j_sig' = NoSignature
    /\ j_eval' = NoJobsEval
    /\ j_unwritten' = {}
    /\ j_unwritten' = {}
    /\ UNCHANGED <<sched_vars, chat_vars,
                   env_vars, store_vars, eval_vars, whale_vars, wallet_vars>>

\* lines 15-31 for the next user, up to the await of line 48
jobs_whale_alert_job_user(batch) ==
    /\ j_pc = "loop"
    /\ LET u == Head(j_users)
           marker == j_dashboard.rec[u].last_alerted_signature
           e == JobsEvaluate(batch, marker)
       IN
       /\ j_user' = u
       /\ j_users' = Tail(j_users)
       /\ IF ~j_dashboard.rec[u].enabled
          THEN /\ j_pc' = JobsPc(Tail(j_users))
               /\ j_sig' = NoSignature
               /\ j_eval' = NoJobsEval
          ELSE /\ j_pc' = IF e.kind = "new" THEN "notifying"
                          ELSE JobsPc(Tail(j_users))
               /\ j_sig' = IF e.kind = "new" THEN batch[e.index].signature
                           ELSE NoSignature
               /\ j_eval' = [user |-> u,
                             signature |-> IF e.index = 0 THEN NoSignature
                                           ELSE batch[e.index].signature,
                             marker |-> marker,
                             kind |-> e.kind]
    /\ UNCHANGED <<sched_vars, chat_vars,
                   env_vars, store_vars, eval_vars, whale_vars, wallet_vars,
                   j_dashboard, j_unwritten>>

\* check_highest_whale_tx has delivered the notification and returns
jobs_whale_alert_job_notified ==
    /\ j_pc = "notifying"
    /\ j_pc' = "persisting"
    /\ j_eval' = [j_eval EXCEPT !.kind = "notified"]
    /\ UNCHANGED <<sched_vars, chat_vars,
                   env_vars, store_vars, eval_vars, whale_vars, wallet_vars,
                   j_dashboard, j_users, j_user, j_sig, j_unwritten>>

\* check_highest_whale_tx raises (lines 53-56): the marker stays as it is
jobs_whale_alert_job_notify_failed ==
    /\ j_pc = "notifying"
    /\ j_pc' = JobsPc(j_users)
    /\ j_eval' = [j_eval EXCEPT !.kind = "failed"]
    /\ UNCHANGED <<sched_vars, chat_vars,
                   env_vars, store_vars, eval_vars, whale_vars, wallet_vars,
                   j_dashboard, j_users, j_user, j_sig, j_unwritten>>

\* lines 49-52: the marker is set in the loaded dict and the dict is written
\* over the file; a failing write is caught at line 55
jobs_whale_alert_job_persist(writable) ==
    /\ j_pc = "persisting"
    /\ j_dashboard' =
           [j_dashboard EXCEPT !.rec[j_user].last_alerted_signature = j_sig]
    /\ dashboard' = IF writable THEN j_dashboard' ELSE dashboard
    /\ j_pc' = JobsPc(j_users)
    /\ j_eval' = [j_eval EXCEPT !.kind = IF writable THEN "persisted"
                                         ELSE "unwritable"]
    /\ j_unwritten' = IF writable THEN j_unwritten
                      ELSE j_unwritten \cup {j_user}
    /\ UNCHANGED <<sched_vars, chat_vars,
                   env_vars, eval_vars, whale_vars, wallet_vars, j_users,
                   j_user, j_sig>>

\* the handlers of the bot that write the store while the job runs
JobsEdit ==
    \/ \E b \in BOOLEAN :
           Edit(set_token_alert_enabled(dashboard, 1, "mintA", b))
    \/ \E th \in Thresholds :
           Edit(set_token_alert_threshold(dashboard, 1, "mintA", th))
    \/ \E u \in Users : Edit(clear_user_dashboard(dashboard, u))

(* ------------------- wallet_tracking_job (wallet_tracker.py) ---------- *)
NoWallet == "-"

\* the (user, wallet) pairs the handlers are invoked for
WalletSubjectList == << <<1, "walletA">>, <<1, "walletB">>, <<2, "walletA">> >>

WalletSubjects == {WalletSubjectList[i] : i \in 1..Len(WalletSubjectList)}

\* the transfers of the two requests of api.py lines 109-127, receiver first
WalletResponses ==
    {<<>>,
     <<Tx("SIG_A", 80000, 1)>>,
     <<Tx("SIG_A", 80000, 1), Tx("SIG_B", 120000, 2)>>,
     <<Tx("SIG_C", 10000, 3)>>,
     <<Tx("SIG_X", NonNumeric, 1), Tx("SIG_B", 120000, 2)>>,
     <<Tx("SIG_D", 0, 3)>>}

RECURSIVE InsertByBlockTime(_, _)
\* puts tx behind the transfers that are at least as recent
InsertByBlockTime(sorted, tx) ==
    IF sorted = <<>> THEN <<tx>>
    ELSE IF Head(sorted).blockTime >= tx.blockTime
         THEN <<Head(sorted)>> \o InsertByBlockTime(Tail(sorted), tx)
         ELSE <<tx>> \o sorted

RECURSIVE SortedByBlockTime(_)
\* sorted(.., key=blockTime, reverse=True): most recent first, stable
SortedByBlockTime(txs) ==
    IF txs = <<>> THEN <<>>
    ELSE InsertByBlockTime(SortedByBlockTime(SubSeq(txs, 1, Len(txs) - 1)),
                           txs[Len(txs)])

\* api.py lines 129-134: float() raises on a valueUsd that is no number; the
\* transfers worth more than 0.01 USD (amounts are whole dollars) are kept
fetch_wallet_activity(combined) ==
    IF AnyFloatRaises(combined) THEN [kind |-> "raise", txs |-> <<>>]
    ELSE [kind |-> "list",
          txs |-> SortedByBlockTime(
                      SelectSeq(combined, LAMBDA tx : tx.valueUsd > 0))]

RECURSIVE LatestBlockTime(_, _)
\* lines 362-369: the greatest of last_tx_time and the fetched block times
LatestBlockTime(txs, latest) ==
    IF txs = <<>> THEN latest
    ELSE LatestBlockTime(Tail(txs),
             IF Head(txs).blockTime > latest THEN Head(txs).blockTime
             ELSE latest)

\* lines 371-373
NewTransactions(txs, last_tx_time) ==
    SelectSeq(txs, LAMBDA tx : tx.blockTime > last_tx_time)

\* the block time of the most recent fetched transfer is stored as it comes
StoreNewest(times, wallet, txs, last_tx_time) ==
    [times EXCEPT ![wallet] = txs[1].blockTime]

\* lines 376-377: the entry is written only when a fetched transfer is newer
UpdateLastTransactionTimes(times, wallet, txs, last_tx_time) ==
    IF LatestBlockTime(txs, last_tx_time) > last_tx_time
    THEN [times EXCEPT ![wallet] = LatestBlockTime(txs, last_tx_time)]
    ELSE times

\* every pair the handlers know is checked, whatever the file holds
EveryWalletPair(d, users) == WalletSubjectList

RECURSIVE WalletPairs(_, _)
\* lines 537-540: the pairs of the loaded file, in the order of the loops
WalletPairs(d, users) ==
    IF users = <<>> THEN <<>>
    ELSE [i \in 1..Len(d.rec[Head(users)].wallets) |->
              <<Head(users), d.rec[Head(users)].wallets[i]>>]
         \o WalletPairs(d, Tail(users))

NoCheck == [wallet |-> NoWallet, before |-> 0, txs |-> <<>>,
            notified |-> <<>>]

\* the job goes on with the check of the next pair, up to its fetch (lines
\* 346-354), or is over
NextCheck(pairs) ==
    /\ t_pc' = IF pairs = <<>> THEN "idle" ELSE "fetching"
    /\ t_pairs' = IF pairs = <<>> THEN <<>> ELSE Tail(pairs)
    /\ t_user' = IF pairs = <<>> THEN NoUser ELSE Head(pairs)[1]
    /\ t_wallet' = IF pairs = <<>> THEN NoWallet ELSE Head(pairs)[2]
    /\ t_last_tx_time' = IF pairs = <<>> THEN 0
                         ELSE last_transaction_times'[Head(pairs)[2]]
    /\ t_new' = <<>>

\* the check that raised is made again
RetryCheck(pairs) == NextCheck(<< <<t_user, t_wallet>> >> \o pairs)

\* lines 418-421 and 541: the exception of a check is logged inside the check
\* and the loop of the job goes on
AfterCheckException(pairs) == NextCheck(pairs)

\* line 534: the job loads the file once
wallet_tracking_job_try ==
    /\ t_pc = "idle"
    /\ UNCHANGED last_transaction_times
    /\ NextCheck(WalletPairs(dashboard, dashboard.keys))
    /\ t_outcome' = "start"
    /\ t_failed' = FALSE
    /\ UNCHANGED t_check

\* the job as the job queue of bot.py line 775 runs it
wallet_tracking_job_start ==
    /\ wallet_tracking_job_try
    /\ UNCHANGED <<sched_vars, chat_vars,
                   env_vars, store_vars, eval_vars, whale_vars, jobs_vars>>

\* the check raises before it has a list of transfers: the requests of
\* fetch_wallet_activity fail, or, as line 354 calls the coroutine function
\* without await, the loop of line 364 finds no list to iterate (TypeError)
check_recent_transactions_fetch_error ==
    /\ t_pc = "fetching"
    /\ UNCHANGED last_transaction_times
    /\ AfterCheckException(t_pairs)
    /\ t_outcome' = "error"
    /\ t_failed' = TRUE
    /\ UNCHANGED <<sched_vars, chat_vars,
                   env_vars, store_vars, eval_vars, whale_vars, jobs_vars,
                   t_check>>

\* the requests are answered with the transfers combined: lines 356-387, up
\* to the first send_message; formatted is whether format_transaction_details
\* gave the text of the message (line 387 calls the coroutine function
\* without await, and line 392 raises TypeError on what it gets)
check_recent_transactions_fetched(combined, formatted) ==
    /\ t_pc = "fetching"
    /\ LET r == fetch_wallet_activity(combined)
           new_transactions == NewTransactions(r.txs, t_last_tx_time)
       IN
       IF r.kind = "raise"
       THEN /\ UNCHANGED <<last_transaction_times, t_check>>
            /\ AfterCheckException(t_pairs)
            /\ t_outcome' = "raise"
            /\ t_failed' = TRUE
       ELSE IF r.txs = <<>>
       THEN /\ UNCHANGED last_transaction_times
            /\ t_check' = [wallet |-> t_wallet, before |-> t_last_tx_time,
                           txs |-> r.txs, notified |-> <<>>]
            /\ NextCheck(t_pairs)
            /\ t_outcome' = "none"
            /\ UNCHANGED t_failed
       ELSE /\ last_transaction_times' =
                   UpdateLastTransactionTimes(last_transaction_times, t_wallet,
                                              r.txs, t_last_tx_time)
            /\ t_check' = [wallet |-> t_wallet, before |-> t_last_tx_time,
                           txs |-> r.txs, notified |-> <<>>]
            /\ IF new_transactions = <<>>
               THEN /\ NextCheck(t_pairs)
                    /\ t_outcome' = "old"
                    /\ UNCHANGED t_failed
               ELSE IF ~formatted
               THEN /\ AfterCheckException(t_pairs)
                    /\ t_outcome' = "format_error"
                    /\ t_failed' = TRUE
               ELSE /\ t_pc' = "sending"
                    /\ t_new' = new_transactions
                    /\ t_outcome' = "new"
                    /\ UNCHANGED <<t_pairs, t_user, t_wallet, t_last_tx_time,
                                   t_failed>>
    /\ UNCHANGED <<sched_vars, chat_vars,
                   env_vars, store_vars, eval_vars, whale_vars, jobs_vars>>

\* lines 410-416: send_message returns, and the next new transfer is sent, or
\* raises, and the check is over (line 418)
check_recent_transactions_send(delivered) ==
    /\ t_pc = "sending"
    /\ UNCHANGED last_transaction_times
    /\ IF ~delivered
       THEN /\ AfterCheckException(t_pairs)
            /\ t_outcome' = "send_failed"
            /\ t_failed' = TRUE
       ELSE IF Len(t_new) > 1
       THEN /\ t_new' = Tail(t_new)
            /\ UNCHANGED <<t_pc, t_pairs, t_user, t_wallet, t_last_tx_time,
                           t_outcome, t_failed>>
       ELSE /\ NextCheck(t_pairs)
            /\ t_outcome' = "sent"
            /\ UNCHANGED t_failed
    /\ t_check' = IF delivered
                  THEN [t_check EXCEPT
                            !.notified = Append(t_check.notified, Head(t_new))]
                  ELSE t_check
    /\ UNCHANGED <<sched_vars, chat_vars,
                   env_vars, store_vars, eval_vars, whale_vars, jobs_vars>>

\* the handlers that add and remove tracked wallets
WalletEdit ==
    \E s \in WalletSubjects : LET u == s[1]  w == s[2] IN
        \/ Edit(add_tracked_wallet(dashboard, u, w))
        \/ Edit(remove_tracked_wallet(dashboard, u, w))

(* ------------------------ the clock and the chain --------------------- *)
ChainSignatures == <<"SIG_A", "SIG_B", "SIG_C", "SIG_D">>

\* a whale transfer of the token is executed on chain now
ChainTransfer ==
    /\ Len(chain) < MaxChain
    /\ \E m \in Tokens :
           chain' = Append(chain,
                       [mint |-> m,
                        tx |-> Tx(ChainSignatures[Len(chain) + 1], 120000, now)])
    /\ UNCHANGED <<sched_vars, chat_vars,
                   now, store_vars, eval_vars, whale_vars, jobs_vars,
                   wallet_vars>>

RECURSIVE TransfersSince(_, _, _)
\* GET /token/transfers?mintAddress=..&timeStart=..: the transfers of the
\* token with blockTime >= timeStart
TransfersSince(c, m, start) ==
    IF c = <<>> THEN <<>>
    ELSE IF Head(c).mint = m /\ Head(c).tx.blockTime >= start
         THEN <<Head(c).tx>> \o TransfersSince(Tail(c), m, start)
         ELSE TransfersSince(Tail(c), m, start)

\* a second passes; a run that is due starts on time, and a run that falls
\* due while the last one is still running is skipped by the job queue
Advance ==
    /\ now < MaxTime
    /\ ~(MaySubmit(w_pc) /\ now >= w_next_due)
    /\ now' = now + 1
    /\ w_next_due' = IF ~MaySubmit(w_pc) /\ now' >= w_next_due
                     THEN w_next_due + WHALE_ALERT_INTERVAL_SECONDS
                     ELSE w_next_due
    /\ UNCHANGED <<sched_vars, chat_vars,
                   chain, store_vars, eval_vars, jobs_vars, wallet_vars,
                   w_pc, w_users,
                   w_user, w_tokens, w_token, w_threshold, w_start_date,
                   w_outcome, w_failed, last_sent, sent, resent>>

(* --------------------- the evaluation as a function ------------------- *)
EvaluateStep ==
    /\ ev.result = Pending
    /\ ev' = [ev EXCEPT !.result = Evaluate(ev.batch, ev.threshold)]
    /\ UNCHANGED <<sched_vars, chat_vars,
                   env_vars, store_vars, whale_vars, jobs_vars, wallet_vars>>

(* ------------------------- the chat handlers (bot.py) ----------------- *)
\* user_id not in self.user_states
NoState == "none"

NoThreshold == 0

\* float("nan") and float("inf") as numbers of the model
NaN == -2

Infinity == 1000000000

\* the texts a user sends; "mintA" stands for a well-formed address
TextInputs == {"abc", "0", "75000", "nan", "skip", "mintA"}

\* the callback data of the buttons that ask for a text
ButtonData ==
    {"set_threshold", "token_stats", "wallet_tracker", "dashboard_add_wallet",
     "dashboard_remove_wallet", "dashboard_add_whale_alert",
     "dashboard_remove_whale_alert", "set_token_threshold:mintA"}

\* f"awaiting_token_threshold_{token_address}"
TokenThresholdState(t) ==
    IF t = "mintA" THEN "awaiting_token_threshold_mintA"
    ELSE "awaiting_token_threshold_mintB"

ThresholdStates ==
    {"awaiting_threshold"} \cup {TokenThresholdState(t) : t \in Tokens}

\* state.replace("awaiting_token_threshold_", "")
StateToken(state) ==
    IF state = "awaiting_token_threshold_mintA" THEN "mintA" ELSE "mintB"

\* float(text): the number, or ValueError for a text that is no float literal
float(text) ==
    CASE text = "0" -> [raises |-> FALSE, value |-> 0]
      [] text = "75000" -> [raises |-> FALSE, value |-> 75000]
      [] text = "nan" -> [raises |-> FALSE, value |-> NaN]
      [] text = "inf" -> [raises |-> FALSE, value |-> Infinity]
      [] OTHER -> [raises |-> TRUE, value |-> 0]

\* a <= b on floats: every comparison with nan is false
LessEqual(a, b) == a # NaN /\ b # NaN /\ a <= b

\* re.match(r"^[1-9A-HJ-NP-Za-km-z]{32,44}$", text)
WellFormed(text) == text \in Tokens

\* the state a button or command asks the text for
StateOfButton(data) ==
    CASE data = "set_threshold" -> "awaiting_threshold"
      [] data = "token_stats" -> "awaiting_token"
      [] data = "wallet_tracker" -> "awaiting_wallet"
      [] data = "dashboard_add_wallet" -> "dashboard_awaiting_add_wallet"
      [] data = "dashboard_remove_wallet" -> "dashboard_awaiting_remove_wallet"
      [] data = "dashboard_add_whale_alert" ->
             "dashboard_awaiting_add_whale_alert"
      [] data = "dashboard_remove_whale_alert" ->
             "dashboard_awaiting_remove_whale_alert"
      [] OTHER -> TokenThresholdState("mintA")

\* the prompts of core/ send their message before they set the state; the
\* branches of button_handler set the state first
ReplyFirst(data) == data \in {"set_threshold", "token_stats", "wallet_tracker"}

\* process_wallet: the wallet is added after the balances were fetched
\* (wallet_tracker.py lines 63-245)
process_wallet(d, u, text, ok) ==
    IF WellFormed(text) /\ ok THEN add_tracked_wallet(d, u, text) ELSE d

\* /start and the start button (bot.py lines 73-114)
start(u) ==
    /\ user_states' = [user_states EXCEPT ![u] = NoState]
    /\ UNCHANGED <<user_thresholds, sched_vars, env_vars, store_vars,
                   eval_vars, whale_vars, jobs_vars, wallet_vars>>

\* a prompt button or command; ok is whether the message of the prompt is
\* delivered (bot.py lines 510-533 and 660-670, whale_alerts.py lines 84-123)
button_handler(u, data, ok) ==
    /\ user_states' =
           IF ReplyFirst(data) /\ ~ok THEN user_states
           ELSE [user_states EXCEPT ![u] = StateOfButton(data)]
    /\ UNCHANGED <<user_thresholds, sched_vars, env_vars, store_vars,
                   eval_vars, whale_vars, jobs_vars, wallet_vars>>

\* handle_text (bot.py lines 329-487) for one message; ok is whether the
\* awaited calls of the handler (replies, balance request) succeed.  The
\* state is popped at line 350; where a branch puts it back, it does so after
\* the awaited reply.
handle_text(u, text, ok) ==
    LET state == user_states[u]
        f == float(text)
        Popped == [user_states EXCEPT ![u] = NoState]
        PutBack == [user_states EXCEPT ![u] = IF ok THEN state ELSE NoState]
    IN
    /\ CASE state = NoState ->
               UNCHANGED <<user_states, user_thresholds, dashboard>>
         [] state = "awaiting_threshold" ->
               IF text = "skip"
               THEN /\ user_states' = Popped
                    /\ UNCHANGED <<user_thresholds, dashboard>>
               ELSE IF f.raises \/ LessEqual(f.value, 0)
               THEN /\ user_states' = PutBack
                    /\ UNCHANGED <<user_thresholds, dashboard>>
               ELSE /\ user_states' = Popped
                    /\ user_thresholds' =
                           [user_thresholds EXCEPT ![u] = f.value]
                    /\ UNCHANGED dashboard
         [] state = "awaiting_token" ->
               /\ user_states' = Popped
               /\ UNCHANGED <<user_thresholds, dashboard>>
         [] state = "awaiting_wallet" ->
               /\ user_states' = Popped
               /\ dashboard' = process_wallet(dashboard, u, text, ok)
               /\ UNCHANGED user_thresholds
         [] state = "dashboard_awaiting_add_wallet" ->
               /\ user_states' = IF WellFormed(text) THEN Popped ELSE PutBack
               /\ dashboard' = process_wallet(dashboard, u, text, ok)
               /\ UNCHANGED user_thresholds
         [] state = "dashboard_awaiting_remove_wallet" ->
               /\ user_states' = Popped
               /\ dashboard' = remove_tracked_wallet(dashboard, u, text)
               /\ UNCHANGED user_thresholds
         [] state = "dashboard_awaiting_add_whale_alert" ->
               /\ user_states' = IF WellFormed(text) THEN Popped ELSE PutBack
               /\ dashboard' =
                      IF WellFormed(text)
                      THEN add_tracked_whale_alert_token(dashboard, u, text)
                      ELSE dashboard
               /\ UNCHANGED user_thresholds
         [] state = "dashboard_awaiting_remove_whale_alert" ->
               /\ user_states' = Popped
               /\ dashboard' =
                      remove_tracked_whale_alert_token(dashboard, u, text)
               /\ UNCHANGED user_thresholds
         [] OTHER ->
               IF f.raises \/ LessEqual(f.value, 0)
               THEN /\ user_states' = PutBack
                    /\ UNCHANGED <<user_thresholds, dashboard>>
               ELSE /\ user_states' = Popped
                    /\ dashboard' =
                           set_token_alert_threshold(
                               dashboard, u, StateToken(state), f.value)
                    /\ UNCHANGED user_thresholds
    /\ UNCHANGED <<sched_vars, env_vars, eval_vars, whale_vars, jobs_vars,
                   wallet_vars>>

\* self.user_states = {} and self.user_thresholds = {} (bot.py lines 64-65)
ChatIdle ==
    /\ user_states = [u \in Users |-> NoState]
    /\ user_thresholds = [u \in Users |-> NoThreshold]

(* ------------------------- specifications ----------------------------- *)
WhaleIdle ==
    /\ w_pc = "idle"
    /\ w_users = <<>>
    /\ w_user = NoUser
    /\ w_tokens = <<>>
    /\ w_token = NoToken
    /\ w_threshold = 0
    /\ w_start_date = 0
    /\ w_next_due = 0
    /\ w_outcome = "start"
    /\ w_failed = FALSE
    /\ last_sent = NoAlert
    /\ sent = {}
    /\ resent = FALSE

NoEvaluation == ev = [batch |-> <<>>, threshold |-> 0, result |-> Pending]

JobsIdle ==
    /\ j_pc = "idle"
    /\ j_dashboard = EmptyDashboard
    /\ j_users = <<>>
    /\ j_user = NoUser
    /\ j_sig = NoSignature
    /\ j_eval = NoJobsEval
    /\ j_unwritten = {}

\* start_wallet_tracker_scheduler is called nowhere in the bot: bot.py
\* schedules wallet_tracking_job on the job queue, so no scheduler_loop runs.
SchedulerOff == s_pc = "off"

WalletIdle ==
    /\ last_transaction_times = [w \in Wallets |-> 0]
    /\ t_pc = "idle"
    /\ t_pairs = <<>>
    /\ t_user = NoUser
    /\ t_wallet = NoWallet
    /\ t_last_tx_time = 0
    /\ t_new = <<>>
    /\ t_outcome = "start"
    /\ t_failed = FALSE
    /\ t_check = NoCheck

\* the bot after its start on a fresh installation
Init ==
    /\ now = 0
    /\ chain = <<>>
    /\ dashboard = EmptyDashboard
    /\ NoEvaluation
    /\ WhaleIdle
    /\ JobsIdle
    /\ WalletIdle
    /\ SchedulerOff
    /\ ChatIdle

\* one run of whale_alert_job against any response, while users edit
Next ==
    \/ whale_alert_job_start
    \/ whale_alert_job_fetch_error
    \/ \E batch \in Responses, delivered \in BOOLEAN :
           whale_alert_job_fetched(batch, delivered)
    \/ whale_alert_job_send_done
    \/ TokenEdit

Spec == Init /\ [][Next]_vars

\* every user of SubjectList tracks his tokens, with the default settings
RECURSIVE TrackAll(_, _)
TrackAll(d, subjects) ==
    IF subjects = <<>> THEN d
    ELSE TrackAll(add_tracked_whale_alert_token(d, Head(subjects)[1],
                                                Head(subjects)[2]),
                  Tail(subjects))

TrackedDashboard == TrackAll(EmptyDashboard, SubjectList)

\* the runs of whale_alert_job on the clock, against the transfers on chain
TimedInit ==
    /\ now = 0
    /\ chain = <<>>
    /\ dashboard = TrackedDashboard
    /\ NoEvaluation
    /\ WhaleIdle
    /\ JobsIdle
    /\ WalletIdle
    /\ SchedulerOff
    /\ ChatIdle

TimedNext ==
    \/ whale_alert_job_start
    \/ whale_alert_job_fetch_error
    \/ \E delivered \in BOOLEAN :
           whale_alert_job_fetched(
               TransfersSince(chain, w_token, w_start_date), delivered)
    \/ whale_alert_job_send_done
    \/ ChainTransfer
    \/ Advance

SpecTimed == TimedInit /\ [][TimedNext]_vars

\* a file written by the revision of jobs.py: both users have the user-level
\* whale alert enabled, with the marker of an earlier tick or none
LegacyDashboard(m1, m2) ==
    [keys |-> <<1, 2>>,
     rec |-> [u \in Users |->
                 [AbsentUser EXCEPT !.enabled = TRUE,
                                    !.last_alerted_signature =
                                        IF u = 1 THEN m1 ELSE m2]]]

\* the ticks of the whale_alert_job of jobs.py, while users edit
JobsInit ==
    /\ now = 0
    /\ chain = <<>>
    /\ \E m1, m2 \in Markers : dashboard = LegacyDashboard(m1, m2)
    /\ NoEvaluation
    /\ WhaleIdle
    /\ JobsIdle
    /\ WalletIdle
    /\ SchedulerOff
    /\ ChatIdle

JobsNext ==
    \/ jobs_whale_alert_job_start
    \/ \E batch \in JobsResponses : jobs_whale_alert_job_user(batch)
    \/ jobs_whale_alert_job_notified
    \/ jobs_whale_alert_job_notify_failed
    \/ \E writable \in BOOLEAN : jobs_whale_alert_job_persist(writable)
    \/ JobsEdit

SpecJobs == JobsInit /\ [][JobsNext]_vars

\* the evaluation of every response for every threshold
EvalInit ==
    /\ now = 0
    /\ chain = <<>>
    /\ dashboard = EmptyDashboard
    /\ ev \in [batch : Batches, threshold : Thresholds, result : {Pending}]
    /\ WhaleIdle
    /\ JobsIdle
    /\ WalletIdle
    /\ SchedulerOff
    /\ ChatIdle

EvalNext == EvaluateStep

SpecEval == EvalInit /\ [][EvalNext]_vars

\* the ticks of wallet_tracking_job, while users add and remove wallets
WalletInit == Init

WalletNext ==
    \/ wallet_tracking_job_start
    \/ check_recent_transactions_fetch_error
    \/ \E combined \in WalletResponses, formatted \in BOOLEAN :
           check_recent_transactions_fetched(combined, formatted)
    \/ \E delivered \in BOOLEAN : check_recent_transactions_send(delivered)
    \/ WalletEdit

SpecWallet == WalletInit /\ [][WalletNext]_vars

RECURSIVE TrackWallets(_, _)
TrackWallets(d, subjects) ==
    IF subjects = <<>> THEN d
    ELSE TrackWallets(add_tracked_wallet(d, Head(subjects)[1],
                                         Head(subjects)[2]),
                      Tail(subjects))

\* the two polling jobs of bot.py lines 771-776 side by side, every user
\* tracking his tokens and wallets
PollingInit ==
    /\ now = 0
    /\ chain = <<>>
    /\ dashboard = TrackWallets(TrackedDashboard, WalletSubjectList)
    /\ NoEvaluation
    /\ WhaleIdle
    /\ JobsIdle
    /\ WalletIdle
    /\ SchedulerOff
    /\ ChatIdle

PollingNext ==
    \/ whale_alert_job_start
    \/ whale_alert_job_fetch_error
    \/ \E batch \in Responses, delivered \in BOOLEAN :
           whale_alert_job_fetched(batch, delivered)
    \/ whale_alert_job_send_done
    \/ wallet_tracking_job_start
    \/ check_recent_transactions_fetch_error
    \/ \E combined \in WalletResponses, formatted \in BOOLEAN :
           check_recent_transactions_fetched(combined, formatted)
    \/ \E delivered \in BOOLEAN : check_recent_transactions_send(delivered)

SpecPolling == PollingInit /\ [][PollingNext]_vars

\* the responses the two jobs are run against side by side
LiveResponses == {<<>>, <<Tx("SIG_C", 10000, 3)>>, <<Tx("SIG_A", 80000, 1)>>}

LiveWalletResponses == {<<>>, <<Tx("SIG_A", 80000, 1)>>}

\* the handlers of both users for one token and one wallet
LiveEdit ==
    \E u \in Users :
        \/ Edit(add_tracked_whale_alert_token(dashboard, u, "mintA"))
        \/ Edit(remove_tracked_whale_alert_token(dashboard, u, "mintA"))
        \/ \E b \in BOOLEAN :
               Edit(set_token_alert_enabled(dashboard, u, "mintA", b))
        \/ Edit(add_tracked_wallet(dashboard, u, "walletA"))
        \/ Edit(remove_tracked_wallet(dashboard, u, "walletA"))

\* the two polling jobs side by side, while users edit their subscriptions
LiveInit == Init

LiveNext ==
    \/ whale_alert_job_start
    \/ whale_alert_job_fetch_error
    \/ \E batch \in LiveResponses, delivered \in BOOLEAN :
           whale_alert_job_fetched(batch, delivered)
    \/ whale_alert_job_send_done
    \/ wallet_tracking_job_start
    \/ check_recent_transactions_fetch_error
    \/ \E combined \in LiveWalletResponses, formatted \in BOOLEAN :
           check_recent_transactions_fetched(combined, formatted)
    \/ \E delivered \in BOOLEAN : check_recent_transactions_send(delivered)
    \/ LiveEdit

SpecLive == LiveInit /\ [][LiveNext]_vars

\* the handlers of the bot calling the mutators of the store, in any order
StoreInit == Init

StoreNext == TokenEdit \/ WalletEdit

SpecStore == StoreInit /\ [][StoreNext]_vars

\* the process is stopped and started again: the module globals and the
\* locals of the jobs are initialised anew (wallet_tracker.py line 20), the
\* file and what was delivered stay
Restart ==
    /\ last_transaction_times' = [w \in Wallets |-> 0]
    /\ t_pc' = "idle"
    /\ t_pairs' = <<>>
    /\ t_user' = NoUser
    /\ t_wallet' = NoWallet
    /\ t_last_tx_time' = 0
    /\ t_new' = <<>>
    /\ t_outcome' = "start"
    /\ t_failed' = FALSE
    /\ t_check' = NoCheck
    /\ w_pc' = "idle"
    /\ w_users' = <<>>
    /\ w_user' = NoUser
    /\ w_tokens' = <<>>
    /\ w_token' = NoToken
    /\ w_threshold' = 0
    /\ w_start_date' = 0
    /\ w_next_due' = now
    /\ w_outcome' = "start"
    /\ w_failed' = FALSE
    /\ last_sent' = NoAlert
    /\ j_pc' = "idle"
    /\ j_dashboard' = EmptyDashboard
    /\ j_users' = <<>>
    /\ j_user' = NoUser
    /\ j_sig' = NoSignature
    /\ j_eval' = NoJobsEval
    /\ j_unwritten' = {}
    /\ UNCHANGED <<sched_vars, chat_vars,
                   env_vars, store_vars, eval_vars, sent, resent>>

\* the ticks of wallet_tracking_job and the restarts of the process, while
\* users add and remove wallets
RestartInit == Init

RestartNext == WalletNext \/ Restart

SpecRestart == RestartInit /\ [][RestartNext]_vars

\* scheduler_loop of start_wallet_tracker_scheduler (wallet_tracker.py lines
\* 555-562): the position after the awaited job is over, whether it ended
\* normally or with an exception logged at line 545 or 559-560.
StopOnFailure(failed) == IF failed THEN "stopped" ELSE "sleep"

AfterJob(failed) == "sleep"

\* line 558: await wallet_tracking_job(application)
scheduler_loop_call ==
    /\ s_pc = "call"
    /\ wallet_tracking_job_try
    /\ s_pc' = "await"
    /\ UNCHANGED <<chat_vars, env_vars, store_vars, eval_vars, whale_vars,
                   jobs_vars>>

\* the same call when _load_dashboard raises (open() fails at dashboard.py
\* line 13): the except of line 544 ends the job with no pair checked
scheduler_loop_call_raises ==
    /\ s_pc = "call"
    /\ t_pc = "idle"
    /\ s_pc' = "await"
    /\ t_outcome' = "job_error"
    /\ t_failed' = TRUE
    /\ UNCHANGED <<chat_vars, env_vars, store_vars, eval_vars, whale_vars,
                   jobs_vars, last_transaction_times, t_pc, t_pairs, t_user,
                   t_wallet, t_last_tx_time, t_new, t_check>>

\* the awaited job is over: line 562, await asyncio.sleep(60)
scheduler_loop_returned ==
    /\ s_pc = "await"
    /\ t_pc = "idle"
    /\ s_pc' = AfterJob(t_failed)
    /\ UNCHANGED <<chat_vars, env_vars, store_vars, eval_vars, whale_vars,
                   jobs_vars, wallet_vars>>

\* the sleep is over: the next iteration of while True (line 556)
scheduler_loop_wake ==
    /\ s_pc = "sleep"
    /\ s_pc' = "call"
    /\ UNCHANGED <<chat_vars, env_vars, store_vars, eval_vars, whale_vars,
                   jobs_vars, wallet_vars>>

\* start_wallet_tracker_scheduler has started the loop in its thread
SchedulerInit ==
    /\ now = 0
    /\ chain = <<>>
    /\ dashboard = TrackWallets(EmptyDashboard, WalletSubjectList)
    /\ NoEvaluation
    /\ WhaleIdle
    /\ JobsIdle
    /\ WalletIdle
    /\ s_pc = "call"
    /\ ChatIdle

SchedulerNext ==
    \/ scheduler_loop_call
    \/ scheduler_loop_call_raises
    \/ check_recent_transactions_fetch_error
    \/ \E combined \in WalletResponses, formatted \in BOOLEAN :
           check_recent_transactions_fetched(combined, formatted)
    \/ \E delivered \in BOOLEAN : check_recent_transactions_send(delivered)
    \/ scheduler_loop_returned
    \/ scheduler_loop_wake

\* every await of the loop completes or raises (the HTTP client and the bot
\* API time out) and asyncio.sleep returns, so the loop's thread, which runs
\* nothing else, always takes its next step
SpecScheduler ==
    SchedulerInit /\ [][SchedulerNext]_vars /\ WF_vars(SchedulerNext)

\* the whale job on the job queue's clock next to a scheduler_loop with one
\* tracked wallet
OverlapInit ==
    /\ now = 0
    /\ chain = <<>>
    /\ dashboard = add_tracked_wallet(TrackedDashboard, 1, "walletA")
    /\ NoEvaluation
    /\ WhaleIdle
    /\ JobsIdle
    /\ WalletIdle
    /\ s_pc = "call"
    /\ ChatIdle

OverlapNext ==
    \/ whale_alert_job_start
    \/ whale_alert_job_fetch_error
    \/ \E batch \in LiveResponses, delivered \in BOOLEAN :
           whale_alert_job_fetched(batch, delivered)
    \/ whale_alert_job_send_done
    \/ Advance
    \/ scheduler_loop_call
    \/ scheduler_loop_call_raises
    \/ check_recent_transactions_fetch_error
    \/ \E combined \in LiveWalletResponses, formatted \in BOOLEAN :
           check_recent_transactions_fetched(combined, formatted)
    \/ \E delivered \in BOOLEAN : check_recent_transactions_send(delivered)
    \/ scheduler_loop_returned
    \/ scheduler_loop_wake

SpecOverlap == OverlapInit /\ [][OverlapNext]_vars

\* the chat of two users with the bot, no job running
ChatInit ==
    /\ now = 0
    /\ chain = <<>>
    /\ dashboard = EmptyDashboard
    /\ NoEvaluation
    /\ WhaleIdle
    /\ JobsIdle
    /\ WalletIdle
    /\ SchedulerOff
    /\ ChatIdle

ChatNext ==
    \/ \E u \in Users : start(u)
    \/ \E u \in Users, data \in ButtonData, ok \in BOOLEAN :
           button_handler(u, data, ok)
    \/ \E u \in Users, text \in TextInputs, ok \in BOOLEAN :
           handle_text(u, text, ok)

SpecChat == ChatInit /\ [][ChatNext]_vars

(* ------------------------------ claims -------------------------------- *)
Numeric(batch, i) == ~FloatRaises(batch[i].valueUsd)

\* C1: whale_alert_job sends no alert for a transaction whose valueUsd is
\* below the threshold the job read for the subscription in this tick.
C1_NoAlertBelowThreshold ==
    last_sent # NoAlert =>
        /\ ~FloatRaises(last_sent.tx.valueUsd)
        /\ last_sent.tx.valueUsd >= last_sent.threshold

\* a response whose highest transfer is below the threshold was evaluated
C1_Witness == w_outcome = "below" /\ last_sent = NoAlert

\* C2: for every fetched batch with a transaction of valueUsd >= T the
\* evaluation selects a transaction of maximal valueUsd, the first of them in
\* input order.
C2_SelectsFirstMaximum ==
    (/\ ev.result # Pending
     /\ \E i \in 1..Len(ev.batch) :
            Numeric(ev.batch, i) /\ ev.batch[i].valueUsd >= ev.threshold)
    => /\ ev.result.kind = "selected"
       /\ \A i \in 1..Len(ev.batch) : Numeric(ev.batch, i) =>
              /\ ev.batch[i].valueUsd <= ev.batch[ev.result.index].valueUsd
              /\ i < ev.result.index =>
                     ev.batch[i].valueUsd < ev.batch[ev.result.index].valueUsd

\* C6: a batch with one record of non-numeric valueUsd is evaluated without
\* an exception, as the batch of its other records is: the maximum of the
\* valid records is selected when it meets the threshold.
C6_UnparsableRecordSkipped ==
    (/\ ev.result # Pending
     /\ Cardinality({i \in 1..Len(ev.batch) : ~Numeric(ev.batch, i)}) = 1)
    => /\ ev.result.kind # "raise"
       /\ \A k \in 1..Len(ev.batch) :
              (/\ Numeric(ev.batch, k)
               /\ ev.batch[k].valueUsd >= ev.threshold
               /\ \A i \in 1..Len(ev.batch) : Numeric(ev.batch, i) =>
                      ev.batch[i].valueUsd <= ev.batch[k].valueUsd)
              => /\ ev.result.kind = "selected"
                 /\ ev.batch[ev.result.index].valueUsd = ev.batch[k].valueUsd

\* C7: an alert is sent only if, at the re-validation right before the send,
\* the token is still tracked by the user and its enabled flag is true.
C7_SendOnlyIfStillEnabled ==
    [][(w_pc = "fetching" /\ w_pc' = "sending") =>
          /\ Contains(dashboard.keys, w_user)
          /\ Contains(dashboard.rec[w_user].token_keys, w_token)
          /\ dashboard.rec[w_user].tokens[w_token].enabled]_vars

\* the subscription was disabled or removed while the fetch was in flight,
\* and the alert for the whale it returned was not sent
C7_Witness == w_outcome = "cancelled"


\* C4: across the ticks of the scheduled whale_alert_job the same transaction
\* is never notified twice to the same user for the same token.
C4_NeverNotifiedTwice == ~resent


\* the job determined the highest transfer of the response for j_eval.user
JobsEvaluated == j_eval.kind \notin {"none", "raise"}

\* and went on to notify the user of it
JobsTriggered == JobsEvaluated /\ j_eval.kind # "old"

C5_MarkerPersistedBeforeNotification ==
    j_eval.kind = "notified" =>
        dashboard.rec[j_eval.user].last_alerted_signature = j_eval.signature

\* C8: no write to the store loses the completed write of another writer: a
\* save of the polling job changes the marker of its user and nothing else
\* of the stored state.
C8_NoLostUpdate ==
    [][(j_pc = "persisting" /\ dashboard' # dashboard) =>
          dashboard' =
              [dashboard EXCEPT !.rec[j_user].last_alerted_signature = j_sig]]_vars

\* C9: last_transaction_times[wallet] never decreases over the checks of
\* check_recent_transactions, and a check whose fetched transactions all have
\* a blockTime less than or equal to the stored value leaves it unchanged.
C9_MarkerNeverRegresses ==
    [][/\ \A w \in Wallets :
              last_transaction_times'[w] >= last_transaction_times[w]
       /\ (/\ t_check'.wallet # NoWallet
           /\ \A i \in 1..Len(t_check'.txs) :
                  t_check'.txs[i].blockTime
                      <= last_transaction_times[t_check'.wallet])
          => UNCHANGED last_transaction_times]_vars

\* a check fetched only transfers older than the stored block time
C9_Witness ==
    /\ t_check.wallet # NoWallet
    /\ t_check.txs # <<>>
    /\ \A i \in 1..Len(t_check.txs) : t_check.txs[i].blockTime < t_check.before
    /\ last_transaction_times[t_check.wallet] = t_check.before

\* C10: a failure while one pair is processed is caught and the job goes on
\* with the remaining pairs of the tick: whale_alert_job and
\* wallet_tracking_job end a tick only with no pair left to visit.
C10_FailureDoesNotAbortTick ==
    /\ w_pc = "idle" => (w_users = <<>> /\ w_tokens = <<>>)
    /\ t_pc = "idle" => t_pairs = <<>>

\* both jobs are at the fetch of a later pair after a pair of the tick failed
C10_Witness ==
    /\ w_failed /\ w_pc = "fetching"
    /\ t_failed /\ t_pc = "fetching"

\* whale_alert_job leaves the pair it was fetching for, with a response
WhaleEvaluated ==
    /\ w_pc = "fetching"
    /\ <<w_pc, w_users, w_user, w_tokens, w_token>>'
           # <<w_pc, w_users, w_user, w_tokens, w_token>>
    /\ w_outcome' # "error"

\* check_recent_transactions leaves the fetch of its pair with a list
WalletChecked ==
    /\ t_pc = "fetching"
    /\ <<t_pc, t_pairs, t_user, t_wallet>>' # <<t_pc, t_pairs, t_user, t_wallet>>
    /\ t_outcome' \notin {"error", "raise"}

\* the response is empty or its transfers are all worth less than threshold
NoQualifying(batch, threshold) ==
    \A i \in 1..Len(batch) :
        Numeric(batch, i) /\ batch[i].valueUsd < threshold

\* C11: an evaluation that finds no qualifying transaction (empty response,
\* or highest transfer below the threshold) sends nothing, raises nothing
\* and leaves the store and the marker as they are.
C11_NoQualifyingNoEffect ==
    [][/\ (WhaleEvaluated /\ NoQualifying(ev'.batch, ev'.threshold)) =>
            /\ w_pc' # "sending"
            /\ last_sent' = NoAlert
            /\ sent' = sent
            /\ w_failed' = w_failed
            /\ dashboard' = dashboard
       /\ (WalletChecked /\ t_check'.txs = <<>>) =>
            /\ t_pc' # "sending"
            /\ t_failed' = t_failed
            /\ last_transaction_times' = last_transaction_times
            /\ dashboard' = dashboard]_vars

\* the last whale response was below the threshold and the last wallet check
\* got no transfers
C11_Witness ==
    /\ ev.result.kind = "below"
    /\ w_outcome = "below"
    /\ t_check.wallet # NoWallet
    /\ t_check.txs = <<>>
    /\ t_outcome = "none"

\* the user has the token in his list, with the alert enabled
ActiveToken(d, u, t) ==
    /\ Contains(d.keys, u)
    /\ Contains(d.rec[u].token_keys, t)
    /\ d.rec[u].tokens[t].enabled

\* the user has the wallet in his list
TrackedWallet(d, u, w) ==
    /\ Contains(d.keys, u)
    /\ Contains(d.rec[u].wallets, w)

\* the pairs wallet_tracking_job is checking or still has to check
WalletTodo ==
    (IF t_pc = "idle" THEN {} ELSE {<<t_user, t_wallet>>}) \cup Range(t_pairs)

WhaleTodo ==
    (IF w_pc = "idle" THEN {} ELSE {<<w_user, w_token>>})
    \cup {<<w_user, t>> : t \in {x \in Range(w_tokens) :
                                    get_token_alert_settings(dashboard, w_user,
                                                             x).enabled}}
    \cup {p \in Users \X Tokens :
              /\ Contains(w_users, p[1])
              /\ ActiveToken(dashboard, p[1], p[2])}

\* C13: a tick processes the pairs that were enabled when it started: while
\* it runs, no step adds a pair to the pairs it evaluates, and none drops a
\* pair other than the one being finished.
C13_TickProcessesSnapshot ==
    [][/\ w_pc # "idle" =>
            /\ WhaleTodo' \subseteq WhaleTodo
            /\ (WhaleTodo \ WhaleTodo') \subseteq {<<w_user, w_token>>}
       /\ t_pc # "idle" =>
            /\ WalletTodo' \subseteq WalletTodo
            /\ (WalletTodo \ WalletTodo') \subseteq {<<t_user, t_wallet>>}]_vars

NoRepetition(list) ==
    \A i, j \in 1..Len(list) : list[i] = list[j] => i = j

\* C14: after any sequence of store operations there is at most one
\* subscription per (user, subject): no wallet is twice in a user's list and
\* no token has two settings records.
C14_OneSubscriptionPerSubject ==
    /\ NoRepetition(dashboard.keys)
    /\ \A u \in Users :
           /\ NoRepetition(dashboard.rec[u].wallets)
           /\ NoRepetition(dashboard.rec[u].token_keys)

\* user 1 removed his first wallet and his first token and added them again
C14_Witness ==
    /\ dashboard.rec[1].wallets = <<"walletB", "walletA">>
    /\ dashboard.rec[1].token_keys = <<"mintB", "mintA">>

\* the token is in get_tracked_whale_alert_tokens of the user
Subscribed(d, u, t) == Contains(get_tracked_whale_alert_tokens(d, u), t)

\* C15: a whale-alert subscription comes into existence only by
\* add_tracked_whale_alert_token: after a removal or a clear the token stays
\* out of get_tracked_whale_alert_tokens whatever toggle or threshold input
\* arrives, until it is added again.
C15_SubscriptionOnlyByAdd ==
    [][\A s \in Subjects :
          (~Subscribed(dashboard, s[1], s[2]) /\ Subscribed(dashboard', s[1], s[2]))
          => dashboard' = add_tracked_whale_alert_token(dashboard, s[1], s[2])]_vars

\* a step of one of the polling jobs
JobStep ==
    \/ whale_vars' # whale_vars
    \/ jobs_vars' # jobs_vars
    \/ wallet_vars' # wallet_vars

\* C16: the polling jobs never create, delete or re-create a subscription
\* and never change its enabled flag or threshold: a step of a job changes
\* nothing of the store but the marker of a user who is in the store.
C16_JobsWriteOnlyMarkers ==
    [][JobStep =>
          /\ dashboard'.keys = dashboard.keys
          /\ \A u \in Users :
                 /\ dashboard'.rec[u] =
                        [dashboard.rec[u] EXCEPT !.last_alerted_signature =
                             dashboard'.rec[u].last_alerted_signature]
                 /\ dashboard'.rec[u].last_alerted_signature
                        # dashboard.rec[u].last_alerted_signature
                    => HasUser(dashboard, u)]_vars

\* C17: the marker is per-subscription state: the check made for one user
\* of a wallet leaves the marker that decides what another user tracking the
\* same wallet is notified of as it is.
C17_MarkerPerSubscription ==
    [][WalletChecked =>
          \A u \in Users \ {t_user} :
              TrackedWallet(dashboard, u, t_wallet) =>
                  last_transaction_times'[t_wallet]
                      = last_transaction_times[t_wallet]]_vars

\* C18: a transaction is considered by a tick iff now - blockTime is at most
\* the interval the job is scheduled at: the request whale_alert_job makes
\* for a token asks for exactly the transfers of the token that are no
\* older than WHALE_ALERT_INTERVAL_SECONDS.
C18_WindowIsPollingInterval ==
    [][(/\ w_pc' = "fetching"
        /\ <<w_pc, w_user, w_tokens, w_token>>'
               # <<w_pc, w_user, w_tokens, w_token>>)
       => \A i \in 1..Len(chain) :
              chain[i].mint = w_token' =>
                  (chain[i].tx.blockTime >= w_start_date'
                   <=> now - chain[i].tx.blockTime
                           <= WHALE_ALERT_INTERVAL_SECONDS)]_vars

\* C19: every update of a last-seen marker is durable: a restart of the
\* process leaves each marker, of a wallet and of a user of jobs.py, as it was
\* last written.
C19_MarkersSurviveRestart ==
    [][Restart =>
          /\ last_transaction_times' = last_transaction_times
          /\ \A u \in Users :
                 dashboard'.rec[u].last_alerted_signature
                     = dashboard.rec[u].last_alerted_signature]_vars

\* the fetch of the pair in hand fails in whale_alert_job
WhaleFetchFailed ==
    /\ w_pc = "fetching"
    /\ whale_vars' # whale_vars
    /\ w_outcome' \in {"error", "raise"}

\* the fetch of the pair in hand fails in check_recent_transactions
WalletFetchFailed ==
    /\ t_pc = "fetching"
    /\ wallet_vars' # wallet_vars
    /\ t_outcome' \in {"error", "raise"}

\* C20: a fetch failure for a pair looks to the user like no qualifying
\* transaction: the tick sends no message for the pair, leaves the store and
\* the marker unchanged, and does not fetch for the pair again.
C20_FetchFailureIsSilent ==
    [][/\ WhaleFetchFailed =>
            /\ w_pc' # "sending"
            /\ last_sent' = NoAlert
            /\ sent' = sent
            /\ dashboard' = dashboard
            /\ <<w_user, w_token>> \notin WhaleTodo'
       /\ WalletFetchFailed =>
            /\ t_pc' # "sending"
            /\ last_transaction_times' = last_transaction_times
            /\ dashboard' = dashboard
            /\ <<t_user, t_wallet>> \notin WalletTodo']_vars

\* both jobs have ended a tick whose last fetch failed
C20_Witness ==
    /\ w_pc = "idle" /\ w_outcome = "error" /\ last_sent = NoAlert
    /\ t_pc = "idle" /\ t_outcome = "error"

\* C21: the scheduler loop never terminates because of a failure: after an
\* exception inside wallet_tracking_job or inside one pair's check the loop
\* reaches its sleep, and ticks keep occurring forever.
C21_TicksKeepOccurring ==
    /\ [](t_failed => <>(s_pc = "sleep"))
    /\ []<>(s_pc = "call")

C21_Witness == s_pc = "call" /\ t_failed

C23_FailedWriteDiscarded ==
    [][\A u \in j_unwritten :
           jobs_vars' # jobs_vars =>
               dashboard'.rec[u].last_alerted_signature
                   = dashboard.rec[u].last_alerted_signature]_vars

\* C24: check_recent_transactions notifies exactly the fetched transactions
\* whose blockTime is greater than the marker read at the start of the check,
\* each once and in fetch order, and at its end the marker of the wallet is
\* the greatest of the old marker and the fetched block times.
C24_NotifiesExactlyTheNew ==
    (t_check.wallet # NoWallet /\ t_pc # "sending") =>
        /\ t_check.notified = NewTransactions(t_check.txs, t_check.before)
        /\ last_transaction_times[t_check.wallet]
               = LatestBlockTime(t_check.txs, t_check.before)

\* C25: no new transaction is dropped silently: a transaction a check found
\* new and did not deliver is still newer than the stored marker when the
\* check is over, so that a later tick identifies it as new again.
C25_NoNewTransactionDropped ==
    (t_check.wallet # NoWallet /\ t_pc # "sending") =>
        \A i \in 1..Len(t_check.txs) :
            t_check.txs[i].blockTime > t_check.before =>
                \/ Contains(t_check.notified, t_check.txs[i])
                \/ t_check.txs[i].blockTime
                       > last_transaction_times[t_check.wallet]

\* C26: the lookback window of a tick is at least the interval between
\* ticks: the request whale_alert_job makes for a token reaches back at least
\* WHALE_ALERT_INTERVAL_SECONDS, the interval the job is scheduled at.
C26_WindowCoversInterval ==
    [][(/\ w_pc' = "fetching"
        /\ <<w_pc, w_user, w_tokens, w_token>>'
               # <<w_pc, w_user, w_tokens, w_token>>)
       => now - w_start_date' >= WHALE_ALERT_INTERVAL_SECONDS]_vars

InvalidInput(state, text) ==
    \/ /\ state \in ThresholdStates
       /\ ~(state = "awaiting_threshold" /\ text = "skip")
       /\ float(text).raises \/ LessEqual(float(text).value, 0)
    \/ /\ state \in {"dashboard_awaiting_add_wallet",
                     "dashboard_awaiting_add_whale_alert"}
       /\ ~WellFormed(text)

\* C28: user_states is a one-shot state machine: a text of a user without a
\* pending state changes nothing; an invalid input in a threshold or add
\* state leaves the user in that state and the store as it is; any other
\* input leaves the user without a pending state; /start removes the state.
C28_OneShotState ==
    [][/\ \A u \in Users, text \in TextInputs, ok \in BOOLEAN :
              handle_text(u, text, ok) =>
                  /\ user_states[u] = NoState =>
                         user_states' = user_states /\ dashboard' = dashboard
                  /\ InvalidInput(user_states[u], text) =>
                         /\ user_states'[u] = user_states[u]
                         /\ dashboard' = dashboard
                  /\ (/\ user_states[u] # NoState
                      /\ ~InvalidInput(user_states[u], text)) =>
                         user_states'[u] = NoState
       /\ \A u \in Users : start(u) => user_states'[u] = NoState]_vars

\* float(text) is a finite number greater than 0
PositiveFinite(text) ==
    /\ ~float(text).raises
    /\ float(text).value \notin {NaN, Infinity}
    /\ float(text).value > 0

\* C29: every threshold persisted through the chat flow is a finite number
\* greater than 0: a text handled in an awaiting_token_threshold state is
\* such a number, or the store is left as it was.
C29_PersistedThresholdPositive ==
    [][\A u \in Users, text \in TextInputs, ok \in BOOLEAN :
           (/\ handle_text(u, text, ok)
            /\ user_states[u] \in {TokenThresholdState(t) : t \in Tokens}) =>
               \/ PositiveFinite(text)
               \/ dashboard' = dashboard]_vars

\* what a call of a mutator for user u can leave in the file
MutatorCalls(d, u) ==
    {add_tracked_wallet(d, u, w) : w \in Wallets}
        \cup {remove_tracked_wallet(d, u, w) : w \in Wallets}
        \cup {add_tracked_whale_alert_token(d, u, t) : t \in Tokens}
        \cup {remove_tracked_whale_alert_token(d, u, t) : t \in Tokens}
        \cup {set_token_alert_enabled(d, u, t, b) :
                  t \in Tokens, b \in BOOLEAN}
        \cup {set_token_alert_threshold(d, u, t, th) :
                  t \in Tokens, th \in Thresholds}
        \cup {clear_user_dashboard(d, u)}

\* the calls that return False: the wallet or token is already present on
\* add, is absent on remove, the user is absent on clear
ReturnsFalse(d, u) ==
    {add_tracked_wallet(d, u, w) :
         w \in {x \in Wallets : Contains(d.rec[u].wallets, x)}}
        \cup {remove_tracked_wallet(d, u, w) :
                  w \in {x \in Wallets : ~Contains(d.rec[u].wallets, x)}}
        \cup {add_tracked_whale_alert_token(d, u, t) :
                  t \in {x \in Tokens : HasToken(d, u, x)}}
        \cup {remove_tracked_whale_alert_token(d, u, t) :
                  t \in {x \in Tokens : ~HasToken(d, u, x)}}
        \cup {clear_user_dashboard(d, v) : v \in {x \in {u} : ~HasUser(d, x)}}

\* C30: a mutator called for user u leaves the stored record of every other
\* user as it was, and a mutator that returns False leaves the whole store
\* as it was.
C30_MutatorFrame ==
    /\ [][\A u \in Users :
              dashboard' \in MutatorCalls(dashboard, u) =>
                  \A v \in Users \ {u} :
                      /\ dashboard'.rec[v] = dashboard.rec[v]
                      /\ HasUser(dashboard', v) <=> HasUser(dashboard, v)]_vars
    /\ [](\A u \in Users : ReturnsFalse(dashboard, u) \subseteq {dashboard})

\* both users have a record, and calls for user 1 return False
C30_Witness ==
    /\ HasUser(dashboard, 1)
    /\ HasUser(dashboard, 2)
    /\ dashboard.rec[2].wallets # <<>>
    /\ ReturnsFalse(dashboard, 1) # {}

=============================================================================
